---- MODULE Spec2Model ----
(***************************************************************************)
(* Least-squares Monte Carlo BSDE option pricer (mclsq.py): the four       *)
(* pricing classes, their backward-induction solvers, the confidence       *)
(* estimator and the two entry points run() and                            *)
(* plot_and_show_table_by_degree().                                        *)
(*                                                                         *)
(* Numbers are exact rationals <<numerator, denominator>> in lowest terms  *)
(* with a positive denominator.  The transcendental functions of the code  *)
(* are evaluated on a lattice where they are dyadic: sigma = 3/4 and       *)
(* dW = +-1 (dt = 1), so exp(sigma*dW) = 2.12 / 0.47 is taken as 2 / 1/2,  *)
(* and r = 3/4, so exp(-r*dt) is taken as 1/2.                             *)
(***************************************************************************)
EXTENDS Integers, Sequences, FiniteSets, TLC

(* ---------------- bounds of the model ---------------- *)
\* number of entry-point calls (run / plot_and_show_table_by_degree) made on one object
MaxCalls == 2

(* ---------------- exact rational arithmetic ---------------- *)
Abs(n) == IF n < 0 THEN -n ELSE n

RECURSIVE GCD(_, _)
GCD(a, b) == IF b = 0 THEN a ELSE GCD(b, a % b)

Q(n, d) ==
    LET g == GCD(Abs(n), Abs(d))
        s == IF d < 0 THEN -1 ELSE 1
    IN  <<(s * n) \div g, (s * d) \div g>>

QInt(n) == <<n, 1>>
Zero == <<0, 1>>
One == <<1, 1>>
QAdd(a, b) ==
    LET g == GCD(a[2], b[2])
    IN  Q(a[1] * (b[2] \div g) + b[1] * (a[2] \div g), (a[2] \div g) * b[2])
QNeg(a) == <<-a[1], a[2]>>
QSub(a, b) == QAdd(a, QNeg(b))
QMul(a, b) ==
    LET g1 == GCD(Abs(a[1]), b[2])
        g2 == GCD(Abs(b[1]), a[2])
    IN  <<(a[1] \div g1) * (b[1] \div g2), (a[2] \div g2) * (b[2] \div g1)>>
QDiv(a, b) == QMul(a, Q(b[2], b[1]))
QLe(a, b) ==
    LET g == GCD(a[2], b[2])
    IN  a[1] * (b[2] \div g) <= b[1] * (a[2] \div g)
QLt(a, b) == a # b /\ QLe(a, b)
QMax(a, b) == IF QLe(a, b) THEN b ELSE a
QMin(a, b) == IF QLe(a, b) THEN a ELSE b

\* the function f with every value computed (an explicit table)
Table(f) == f @@ f

RECURSIVE QSumTo(_, _)
\* sum of v[1..n], v a function on 1..n
QSumTo(v, n) == IF n = 0 THEN Zero ELSE QAdd(QSumTo(v, n - 1), v[n])

RECURSIVE QMinTo(_, _)
\* smallest of v[1..n], n >= 1
QMinTo(v, n) == IF n = 1 THEN v[1] ELSE QMin(QMinTo(v, n - 1), v[n])

RECURSIVE Pow2(_)
Pow2(k) == IF k = 0 THEN 1 ELSE 2 * Pow2(k - 1)

\* exp on the lattice k*ln 2 (k an integer): exp(k*ln 2) = 2^k
Exp2(k) == IF k >= 0 THEN <<Pow2(k), 1>> ELSE <<1, Pow2(-k)>>


(* ---------------- constructor arguments ---------------- *)
Plain == {"European", "American"}
Spreads == {"EuropeanSpread", "AmericanSpread"}
Variants == Plain \cup Spreads
None == <<0, 0>>

\* (N, samples, M) triples of the configurations explored: two steps of three
\* paths in one batch, and one step of two paths in two batches
Shapes == {<<2, 1, 3>>, <<1, 2, 2>>}
\* polynomial degrees handed to the constructor and to the reporting entry point
DegreeArgs == {0, 1, 20, 21}
\* payoff-kind strings handed to the constructor
PayoffArgs == {"call", "Put", "straddle"}

Args ==
    [variant : Variants,
     S0 : {One}, K : {One}, r : {Q(3, 4)}, sigma : {Q(3, 4)},
     T : {1, 2}, N : {1, 2}, M : {2, 3},
     lower : {Q(1, 20)}, samples : {1, 2},
     option_payoff : PayoffArgs, degree : DegreeArgs \cup {-1},
     mu : {Q(9, 32)}, K2 : {QInt(2)}, R : {Q(7, 8)}]

\* the argument records explored: dt = T/N = 1 and (N, samples, M) in Shapes
ArgsExplored == {a \in Args : a.T = a.N /\ <<a.N, a.samples, a.M>> \in Shapes}

(* ---------------- BSDEOptionPricingEuropean.__init__ ---------------- *)
\* str.lower() on the payoff-kind strings explored
StrLower(s) ==
    CASE s = "call" -> "call"
      [] s = "Put" -> "put"
      [] s = "straddle" -> "straddle"

\* _get_opt_payoff: "call" / "put", or "TypeError"
GetOptPayoff(opt_payoff) ==
    IF StrLower(opt_payoff) = "call" THEN "call"
    ELSE IF StrLower(opt_payoff) = "put" THEN "put"
    ELSE "TypeError"

\* the exception __init__ raises on the arguments a, or "none"
InitRaises(a) ==
    IF ~ QLt(Zero, a.S0) THEN "ValueError"
    ELSE IF ~ QLt(Zero, a.K) THEN "ValueError"
    ELSE IF ~ (a.T > 0) THEN "ValueError"
    ELSE IF ~ QLt(Zero, a.sigma) THEN "ValueError"
    ELSE IF ~ (a.N > 0) THEN "ValueError"
    ELSE IF ~ (a.M > 0) THEN "ValueError"
    ELSE IF a.degree < 0 THEN "ValueError"
    ELSE IF GetOptPayoff(a.option_payoff) = "TypeError" THEN "TypeError"
    ELSE "none"

\* default argument of __init__
DefaultPicard == 3

\* the fields __init__ sets (the spread classes add K2 and R)
Construct(a) ==
    [variant |-> a.variant,
     S0 |-> a.S0, K |-> a.K, T |-> a.T, r |-> a.r, mu |-> a.mu, sigma |-> a.sigma,
     N |-> a.N, M |-> a.M,
     option_payoff |-> GetOptPayoff(a.option_payoff),
     degree |-> a.degree,
     dt |-> Q(a.T, a.N),
     samples |-> a.samples,
     lower |-> a.lower,
     lamb |-> QDiv(QSub(a.mu, a.r), a.sigma),
     picard |-> DefaultPicard,
     K2 |-> IF a.K2 = None THEN QInt(105) ELSE a.K2,
     R |-> IF a.R = None THEN Q(6, 100) ELSE a.R]

(* ---------------- payoff functions ---------------- *)
\* _payoff_func raises (the spread classes know no "put"; the message's
\* self.option_type does not exist, so the exception is an AttributeError)
PayoffRaises(o) == o.variant \in Spreads /\ o.option_payoff # "call"

PayoffFunc(o, s) ==
    CASE o.variant \in Plain /\ o.option_payoff = "call" ->
            QMax(QSub(s, o.K), Zero)
      [] o.variant \in Plain /\ o.option_payoff = "put" ->
            QMax(QSub(o.K, s), Zero)
      [] o.variant = "EuropeanSpread" /\ o.option_payoff = "call" ->
            QSub(QMax(QSub(s, o.K), Zero), QMul(QInt(2), QMax(QSub(s, o.K2), Zero)))
      [] o.variant = "AmericanSpread" /\ o.option_payoff = "call" ->
            QSub(QMax(QSub(s, o.K), Zero), QMax(QSub(s, o.K2), Zero))

(* ---------------- _generate_stock_paths ---------------- *)
\* the unit of the exp lattice: ln 2, carried as 3/4
Ln2 == Q(3, 4)

\* exp(x) for x a multiple of Ln2
ExpLattice(x) == Exp2(QDiv(x, Ln2)[1])

RECURSIVE RowCode(_, _)
\* the row w[0..j] of increments read as a binary number
RowCode(w, j) ==
    IF j < 0 THEN 0 ELSE 2 * RowCode(w, j - 1) + (IF w[j] = QInt(1) THEN 1 ELSE 0)

\* the Gaussian increments of one batch: an M x (N+1) matrix, columns 0..N.
\* The solvers treat the paths alike, so one ordering of the rows stands for
\* all of them.
Increments(o) ==
    {d \in [1..o.M -> [0..o.N -> {QInt(-1), QInt(1)}]] :
        \A m \in 1..(o.M - 1) : RowCode(d[m], o.N) <= RowCode(d[m + 1], o.N)}

RECURSIVE CumSum(_, _)
\* np.cumsum of row[0..j]
CumSum(row, j) == IF j = 0 THEN row[0] ELSE QAdd(CumSum(row, j - 1), row[j])

\* (mu - 0.5*sigma**2)*dt + sigma*dW, one entry
LogReturn(o, w) ==
    QAdd(QMul(QSub(o.mu, QMul(Q(1, 2), QMul(o.sigma, o.sigma))), o.dt), QMul(o.sigma, w))

\* S = S0*exp(hstack([zeros(M,1), log_S])): log_S has the N+1 columns of dW, so
\* S has the N+2 columns 0..N+1
StockPaths(o, dw) ==
    LET ret == Table([m \in 1..o.M |-> Table([j \in 0..o.N |-> LogReturn(o, dw[m][j])])])
    IN  Table([m \in 1..o.M |->
            Table([j \in 0..(o.N + 1) |->
                IF j = 0 THEN QMul(o.S0, ExpLattice(Zero))
                ELSE QMul(o.S0, ExpLattice(CumSum(ret[m], j - 1)))])])

\* the index numpy's -1 names in a row with columns 0..last
LastCol(row) == Cardinality(DOMAIN row) - 1

(* ---------------- _generate_regression and the least-squares fit ---------------- *)
MaxDegree == 20
MinDegree == 1

\* _generate_regression raises ValueError
RegressionRaises(o) == o.degree > MaxDegree \/ o.degree < MinDegree

\* the Laguerre polynomials L0 = 1 and L1 = 1 - x
Laguerre(deg, x) == IF deg = 0 THEN One ELSE QSub(One, x)

\* X @ lstsq(X.T @ X, X.T @ y) for degree 1: the normal equations of the basis
\* (L0, L1), solved by Cramer's rule, and by the minimum-norm solution when
\* X.T @ X is singular (all prices equal)
FitLinear(x, y, M) ==
    LET u == Table([m \in 1..M |-> Laguerre(1, x[m])])
        a00 == QInt(M)
        a01 == QSumTo(u, M)
        a11 == QSumTo([m \in 1..M |-> QMul(u[m], u[m])], M)
        b0 == QSumTo(y, M)
        b1 == QSumTo([m \in 1..M |-> QMul(u[m], y[m])], M)
        det == QSub(QMul(a00, a11), QMul(a01, a01))
    IN  IF det # Zero
        THEN LET alpha0 == QDiv(QSub(QMul(b0, a11), QMul(a01, b1)), det)
                 alpha1 == QDiv(QSub(QMul(a00, b1), QMul(a01, b0)), det)
             IN  Table([m \in 1..M |-> QAdd(alpha0, QMul(alpha1, u[m]))])
        ELSE LET c == u[1]
                 t == QDiv(b0, QMul(a00, QAdd(One, QMul(c, c))))
             IN  Table([m \in 1..M |-> QAdd(t, QMul(QMul(t, c), u[m]))])

\* the same fit when degree >= M - 1: the basis spans every function of the
\* price on the M points, so the fitted value of a path is the mean of y over
\* the paths with its price
FitSaturated(x, y, M) ==
    Table([m \in 1..M |->
        LET same == {n \in 1..M : x[n] = x[m]}
        IN  QDiv(QSumTo([n \in 1..M |-> IF n \in same THEN y[n] ELSE Zero], M),
                 QInt(Cardinality(same)))])

\* continuation_value = X @ alpha
Fit(o, x, y) ==
    CASE o.degree >= o.M - 1 -> FitSaturated(x, y, o.M)
      [] o.degree = 1 /\ o.M > 2 -> FitLinear(x, y, o.M)

Col(A, M, j) == Table([m \in 1..M |-> A[m][j]])
SetCol(A, M, j, v) == Table([m \in 1..M |-> Table([A[m] EXCEPT ![j] = v[m]])])
Mean(v, M) == QDiv(QSumTo(v, M), QInt(M))
Zeros(M, cols) == Table([m \in 1..M |-> Table([j \in 0..(cols - 1) |-> Zero])])

(* ---------------- the backward step of each _bsde_solver ---------------- *)
\* np.exp(-self.r * self.dt)
Discount(o) == ExpLattice(QNeg(QMul(o.r, o.dt)))

\* EuropeanStep with the result stored one column off, in Y[:, i]
EuropeanStep_column_i(o, s, y, i) ==
    LET cont == Fit(o, Col(s, o.M, i), Col(y, o.M, i))
    IN  SetCol(y, o.M, i, [m \in 1..o.M |-> QMul(cont[m], Discount(o))])

\* BSDEOptionPricingEuropean: Y[:, i-1] = continuation_value * exp(-r*dt)
EuropeanStep(o, s, y, i) ==
    LET cont == Fit(o, Col(s, o.M, i), Col(y, o.M, i))
    IN  SetCol(y, o.M, i - 1, [m \in 1..o.M |-> QMul(cont[m], Discount(o))])

\* AmericanStep with np.minimum in the place of np.maximum
AmericanStep_minimum(o, s, y, i) ==
    LET cont == Fit(o, Col(s, o.M, i), Col(y, o.M, i))
    IN  SetCol(y, o.M, i - 1,
               [m \in 1..o.M |->
                   QMin(QMul(cont[m], Discount(o)), PayoffFunc(o, s[m][i]))])

\* BSDEOptionPricingAmerican: the same, floored by the exercise value
AmericanStep(o, s, y, i) ==
    LET cont == Fit(o, Col(s, o.M, i), Col(y, o.M, i))
    IN  SetCol(y, o.M, i - 1,
               [m \in 1..o.M |->
                   QMax(QMul(cont[m], Discount(o)), PayoffFunc(o, s[m][i]))])

\* Z[:, i] = X @ alpha_z, the fit of Y[:, i] * dW[:, i]
HedgeStep(o, s, dw, y, z, i) ==
    SetCol(z, o.M, i,
           Fit(o, Col(s, o.M, i), Table([m \in 1..o.M |-> QMul(y[m][i], dw[m][i])])))

\* np.min(Y[:, i] - Z[:, i]/self.sigma, 0): the second argument is the axis,
\* so this is the smallest entry of the vector over the M paths
NpMinAxis0(o, y, z, i) ==
    QMinTo(Table([m \in 1..o.M |-> QSub(y[m][i], QDiv(z[m][i], o.sigma))]), o.M)

\* one pass of the Picard loop: Y[:, i-1] = E + (-r*Y[:, i] + lamb*Z[:, i]
\*                                  - (R - r)*np.min(...))*dt
PicardPass(o, y, z, E, i) ==
    LET least == NpMinAxis0(o, y, z, i)
    IN  SetCol(y, o.M, i - 1,
               [m \in 1..o.M |->
                   QAdd(E[m],
                        QMul(QSub(QAdd(QMul(QNeg(o.r), y[m][i]), QMul(o.lamb, z[m][i])),
                                  QMul(QSub(o.R, o.r), least)),
                             o.dt))])

RECURSIVE PicardLoop(_, _, _, _, _, _)
\* for _ in range(n)
PicardLoop(o, y, z, E, i, n) ==
    IF n <= 0 THEN y ELSE PicardLoop(o, PicardPass(o, y, z, E, i), z, E, i, n - 1)

\* BSDEOptionPricingEuropeanSpread: z is the matrix Z after HedgeStep
EuropeanSpreadStep(o, s, y, z, i) ==
    PicardLoop(o, y, z, Fit(o, Col(s, o.M, i), Col(y, o.M, i)), i, o.picard)

\* BSDEOptionPricingAmericanSpread: Y[:, i-1] = np.maximum(exercise_value, Y[:, i-1])
AmericanSpreadStep(o, s, y, z, i) ==
    LET p == EuropeanSpreadStep(o, s, y, z, i)
    IN  SetCol(p, o.M, i - 1,
               [m \in 1..o.M |-> QMax(PayoffFunc(o, s[m][i]), p[m][i - 1])])

\* the body of `for i in range(self.N, 0, -1)` of the class of o: the new Y
StepY(o, s, dw, y, z, i) ==
    CASE o.variant = "European" -> EuropeanStep(o, s, y, i)
      [] o.variant = "American" -> AmericanStep(o, s, y, i)
      [] o.variant = "EuropeanSpread" ->
            EuropeanSpreadStep(o, s, y, HedgeStep(o, s, dw, y, z, i), i)
      [] o.variant = "AmericanSpread" ->
            AmericanSpreadStep(o, s, y, HedgeStep(o, s, dw, y, z, i), i)

RECURSIVE EuropeanSweep(_, _, _, _)
\* BSDEOptionPricingEuropean: the passes i, i-1, ..., 1 of the backward loop
EuropeanSweep(o, s, y, i) ==
    IF i = 0 THEN y ELSE EuropeanSweep(o, s, EuropeanStep(o, s, y, i), i - 1)

\* Y[:, -1] = self._payoff_func(S[:, -1]) on Y = np.zeros((M, N + 1))
TerminalY(o, s) ==
    SetCol(Zeros(o.M, o.N + 1), o.M, LastCol(Zeros(o.M, o.N + 1)[1]),
           [m \in 1..o.M |-> PayoffFunc(o, s[m][LastCol(s[m])])])

\* np.mean(Y[:, 0]) of one batch of BSDEOptionPricingEuropean._bsde_solver on
\* the paths s, with the configuration of o
EuropeanBatchEstimate(o, s) ==
    LET e == [o EXCEPT !.variant = "European"]
    IN  Mean(Col(EuropeanSweep(e, s, TerminalY(e, s), e.N), e.M, 0), e.M)

(* ---------------- _confidence_interval ---------------- *)
\* norm.ppf(1 - lower/2) for lower = 0.05: 1.959964
NormPpf(lower) == CASE lower = Q(1, 20) -> Q(49, 25)

\* np.sqrt(self.M): 1.41421 and 1.73205
SqrtM(M) == CASE M = 2 -> Q(99, 70) [] M = 3 -> Q(97, 56)

\* np.std of a sample of one or two entries
Std(sample) ==
    CASE Len(sample) = 1 -> Zero
      [] Len(sample) = 2 ->
            LET d == QSub(sample[1], sample[2])
            IN  QMul(Q(1, 2), <<Abs(d[1]), d[2]>>)

RECURSIVE LongDiv(_, _, _, _)
\* n more decimal digits of rem/d after the value v: <<value, remainder>>
LongDiv(v, rem, d, n) ==
    IF n = 0 THEN <<v, rem>>
    ELSE LongDiv(10 * v + ((10 * rem) \div d), (10 * rem) % d, d, n - 1)

\* round(x, 4): to the nearest multiple of 1/10000, ties to the even one
Round4(x) ==
    LET ld == LongDiv(x[1] \div x[2], x[1] % x[2], x[2], 4)
        fl == ld[1]
        twice == 2 * ld[2]
        r == IF twice > x[2] THEN fl + 1
             ELSE IF twice < x[2] THEN fl
             ELSE IF fl % 2 = 0 THEN fl ELSE fl + 1
    IN  Q(r, 10000)

\* sample is the sequence of the entries (a scalar has one)
ConfidenceInterval(o, sample) ==
    LET mean_sample == QDiv(QSumTo(sample, Len(sample)), QInt(Len(sample)))
        std_sample == Std(sample)
        half == QDiv(QMul(NormPpf(o.lower), std_sample), SqrtM(o.M))
        upper == QAdd(mean_sample, half)
        lower == QSub(mean_sample, half)
    IN  [mean |-> mean_sample, std |-> std_sample,
         CI |-> <<Round4(lower), Round4(upper)>>]

(* ---------------- the state ---------------- *)
VARIABLES
    given,        \* the arguments the constructor was called with
    obj,          \* the fields of the pricing object (self)
    pc,           \* where the program is: rejected, idle, plot_loop, batch, sweep
    caller,       \* the entry point in progress: none, run, plot
    calls,        \* entry-point calls made so far
    err,          \* the exception the last call raised, or none
    degrees,      \* plot_and_show_table_by_degree: the degrees still to iterate
    rows,         \* plot_and_show_table_by_degree: rows
    k,            \* _bsde_solver: batches completed
    i,            \* _bsde_solver: the next value of range(N, 0, -1), 0 when exhausted
    visited,      \* the values i has taken in the current batch, in order
    S, dW, Y, Z,  \* _bsde_solver: the matrices of the current batch
    Y0_samples,   \* _bsde_solver: per-batch mean of Y[:, 0]
    Z0_samples,   \* AmericanSpread._bsde_solver: per-batch mean of Z[:, 1]
    E0_samples,   \* American: what European._bsde_solver makes of the same paths
    ret,          \* the pair _bsde_solver returned
    out           \* run: the statistics it prints

vars == <<given, obj, pc, caller, calls, err, degrees, rows, k, i, visited,
          S, dW, Y, Z, Y0_samples, Z0_samples, E0_samples, ret, out>>

Empty == <<>>
IsSpread(o) == o.variant \in Spreads
\* the `degrees` arguments explored: no degree, or one
DegreeLists == {<<>>} \cup {<<d>> : d \in DegreeArgs}

Init ==
    /\ given \in ArgsExplored
    /\ IF InitRaises(given) = "none"
       THEN obj = Construct(given) /\ pc = "idle" /\ err = "none"
       ELSE obj = Empty /\ pc = "rejected" /\ err = InitRaises(given)
    /\ caller = "none" /\ calls = 0
    /\ degrees = <<>> /\ rows = <<>>
    /\ k = 0 /\ i = 0 /\ visited = <<>>
    /\ S = Empty /\ dW = Empty /\ Y = Empty /\ Z = Empty
    /\ Y0_samples = Empty /\ Z0_samples = Empty /\ E0_samples = Empty
    /\ ret = Empty /\ out = Empty

\* the head of _bsde_solver: Y0_samples = np.zeros(self.samples)
EnterSolver(o) ==
    /\ Y0_samples' = [n \in 1..o.samples |-> Zero]
    /\ Z0_samples' = IF o.variant = "AmericanSpread"
                     THEN [n \in 1..o.samples |-> Zero] ELSE Empty
    /\ E0_samples' = IF o.variant = "American"
                     THEN [n \in 1..o.samples |-> Zero] ELSE Empty
    /\ k' = 0 /\ i' = 0 /\ visited' = <<>>
    /\ S' = Empty /\ dW' = Empty /\ Y' = Empty /\ Z' = Empty
    /\ ret' = Empty
    /\ pc' = "batch"

\* an exception leaves the solver and the entry point; the object stays as it is
Raise(e) ==
    /\ err' = e
    /\ pc' = "idle" /\ caller' = "none"
    /\ i' = 0 /\ visited' = <<>>
    /\ S' = Empty /\ dW' = Empty /\ Y' = Empty /\ Z' = Empty
    /\ UNCHANGED <<given, obj, calls, degrees, rows, k, Y0_samples, Z0_samples, E0_samples, ret, out>>

\* run(), up to the call of _bsde_solver
Run ==
    /\ pc = "idle" /\ calls < MaxCalls
    /\ calls' = calls + 1 /\ caller' = "run" /\ err' = "none"
    /\ degrees' = <<>> /\ rows' = <<>> /\ out' = Empty
    /\ EnterSolver(obj)
    /\ UNCHANGED <<given, obj>>

\* plot_and_show_table_by_degree(ds), up to its loop
PlotAndShowTableByDegree ==
    /\ pc = "idle" /\ calls < MaxCalls
    /\ \E ds \in DegreeLists : degrees' = ds
    /\ calls' = calls + 1 /\ caller' = "plot" /\ err' = "none"
    /\ rows' = <<>> /\ out' = Empty /\ ret' = Empty
    /\ pc' = "plot_loop"
    /\ UNCHANGED <<given, obj, k, i, visited, S, dW, Y, Z, Y0_samples, Z0_samples, E0_samples>>

\* for degree in degrees: self.degree = degree; self._bsde_solver()
PlotNextDegree ==
    /\ pc = "plot_loop" /\ degrees # <<>>
    /\ obj' = [obj EXCEPT !.degree = Head(degrees)]
    /\ degrees' = Tail(degrees)
    /\ EnterSolver(obj')
    /\ UNCHANGED <<given, caller, calls, err, rows, out>>

\* the loop is over: the plot and the table are shown
PlotShow ==
    /\ pc = "plot_loop" /\ degrees = <<>>
    /\ pc' = "idle" /\ caller' = "none"
    /\ UNCHANGED <<given, obj, calls, err, degrees, rows, k, i, visited,
                   S, dW, Y, Z, Y0_samples, Z0_samples, E0_samples, ret, out>>

\* for k in range(self.samples): the paths, the zero matrices, the terminal column
BatchStart ==
    /\ pc = "batch" /\ k < obj.samples
    /\ \E dw \in Increments(obj) :
          IF PayoffRaises(obj)
          THEN Raise("AttributeError")
          ELSE /\ S' = StockPaths(obj, dw)
               /\ dW' = dw
               /\ Y' = TerminalY(obj, S')
               /\ Z' = IF IsSpread(obj) THEN Zeros(obj.M, obj.N + 1) ELSE Empty
               /\ i' = obj.N /\ visited' = <<>>
               /\ pc' = "sweep"
               /\ UNCHANGED <<given, obj, caller, calls, err, degrees, rows, k,
                              Y0_samples, Z0_samples, E0_samples, ret, out>>

\* one pass of for i in range(self.N, 0, -1)
BackwardStep ==
    /\ pc = "sweep" /\ i >= 1
    /\ IF RegressionRaises(obj)
       THEN Raise("ValueError")
       ELSE /\ Z' = IF IsSpread(obj) THEN HedgeStep(obj, S, dW, Y, Z, i) ELSE Z
            /\ Y' = StepY(obj, S, dW, Y, Z, i)
            /\ i' = i - 1
            /\ visited' = Append(visited, i)
            /\ UNCHANGED <<given, obj, pc, caller, calls, err, degrees, rows, k,
                           S, dW, Y0_samples, Z0_samples, E0_samples, ret, out>>

\* Y0_samples[k] = np.mean(Y[:, 0]) (and Z0_samples[k] = np.mean(Z[:, 1]))
BatchEnd ==
    /\ pc = "sweep" /\ i = 0
    /\ Y0_samples' = [Y0_samples EXCEPT ![k + 1] = Mean(Col(Y, obj.M, 0), obj.M)]
    /\ Z0_samples' = IF obj.variant = "AmericanSpread"
                     THEN [Z0_samples EXCEPT ![k + 1] = Mean(Col(Z, obj.M, 1), obj.M)]
                     ELSE Z0_samples
    /\ E0_samples' = IF obj.variant = "American"
                     THEN [E0_samples EXCEPT ![k + 1] = EuropeanBatchEstimate(obj, S)]
                     ELSE E0_samples
    /\ k' = k + 1
    /\ pc' = "batch"
    /\ visited' = <<>>
    /\ S' = Empty /\ dW' = Empty /\ Y' = Empty /\ Z' = Empty
    /\ UNCHANGED <<given, obj, caller, calls, err, degrees, rows, i, ret, out>>

\* return Y0_samples, 0: the second component is the scalar 0, which numpy
\* reads as an array of no dimension and one entry
SolverReturn == [Y0_array |-> Y0_samples, Z0_array |-> <<Zero>>, Z0_ndim |-> 0]

\* run(), after _bsde_solver returned: both confidence intervals, then the print
RunReport ==
    /\ pc = "batch" /\ k = obj.samples /\ caller = "run"
    /\ ret' = SolverReturn
    /\ out' = [Y |-> ConfidenceInterval(obj, ret'.Y0_array),
               Z |-> ConfidenceInterval(obj, ret'.Z0_array)]
    /\ pc' = "idle" /\ caller' = "none"
    /\ UNCHANGED <<given, obj, calls, err, degrees, rows, k, i, visited,
                   S, dW, Y, Z, Y0_samples, Z0_samples, E0_samples>>

\* plot_and_show_table_by_degree, after _bsde_solver returned: one more row
PlotRow ==
    /\ pc = "batch" /\ k = obj.samples /\ caller = "plot"
    /\ ret' = SolverReturn
    /\ LET ci == ConfidenceInterval(obj, ret'.Y0_array)
       IN  rows' = Append(rows, <<obj.degree, ci.mean, ci.std, ci.CI[1], ci.CI[2]>>)
    /\ pc' = "plot_loop"
    /\ UNCHANGED <<given, obj, caller, calls, err, degrees, k, i, visited,
                   S, dW, Y, Z, Y0_samples, Z0_samples, E0_samples, out>>

Next ==
    \/ Run
    \/ PlotAndShowTableByDegree
    \/ PlotNextDegree
    \/ PlotShow
    \/ BatchStart
    \/ BackwardStep
    \/ BatchEnd
    \/ RunReport
    \/ PlotRow

Spec == Init /\ [][Next]_vars

(* ---------------- properties ---------------- *)
Live == pc # "rejected"
InSweep == Live /\ pc = "sweep"
SweepDone == InSweep /\ i = 0
Paths == 1..obj.M

\* C1: the terminal column Y[:, N] is the payoff of the price column S[:, N];
\* S has exactly the N+1 columns 0..N and column 0 is S0.
C1_TerminalPayoffAtColumnN ==
    InSweep =>
        \A m \in Paths :
            /\ DOMAIN S[m] = 0..obj.N
            /\ S[m][0] = obj.S0
            /\ Y[m][obj.N] = PayoffFunc(obj, S[m][obj.N])

\* C2: on the same paths the American batch estimate mean(Y[:, 0]) is at least
\* the European one, and so is the American price estimate.
C2_AmericanAtLeastEuropean ==
    /\ (SweepDone /\ obj.variant = "American") =>
            QLe(EuropeanBatchEstimate(obj, S), Mean(Col(Y, obj.M, 0), obj.M))
    /\ (Live /\ obj.variant = "American" /\ out # Empty) =>
            QLe(Mean(E0_samples, obj.samples), out.Y.mean)

\* C2 witness: an American sweep over three paths with three different prices
\* at the first regression, degree 1, where early exercise adds value.
C2_Witness ==
    /\ SweepDone /\ obj.variant = "American"
    /\ obj.degree = 1 /\ obj.M = 3
    /\ Cardinality({S[m][obj.N] : m \in Paths}) = 3
    /\ QLt(EuropeanBatchEstimate(obj, S), Mean(Col(Y, obj.M, 0), obj.M))

\* C3: for the spread classes with a call payoff and K < K2 the payoff of every
\* price lies in [0, K2 - K].
C3_SpreadPayoffBounded ==
    (InSweep /\ IsSpread(obj) /\ obj.option_payoff = "call" /\ QLt(obj.K, obj.K2)) =>
        \A m \in Paths : \A j \in DOMAIN S[m] :
            /\ QLe(Zero, PayoffFunc(obj, S[m][j]))
            /\ QLe(PayoffFunc(obj, S[m][j]), QSub(obj.K2, obj.K))

\* C4: the rounded bounds of the confidence interval enclose the mean.
C4_MeanInsideInterval ==
    (Live /\ out # Empty) =>
        /\ QLe(out.Y.CI[1], out.Y.mean) /\ QLe(out.Y.mean, out.Y.CI[2])
        /\ QLe(out.Z.CI[1], out.Z.mean) /\ QLe(out.Z.mean, out.Z.CI[2])

\* C5: the American spread solver returns its Z0 sequence, and run() computes
\* the hedge statistics from it.
C5_HedgeSequenceReturned ==
    (Live /\ obj.variant = "AmericanSpread" /\ ret # Empty) =>
        /\ ret.Z0_ndim = 1
        /\ ret.Z0_array = Z0_samples
        /\ out # Empty => out.Z = ConfidenceInterval(obj, Z0_samples)

\* C6: once the constructor accepted the configuration and the degree lies in
\* [1, 20], no call raises.
C6_NoErrorAfterConstruction ==
    (Live /\ obj.degree \in MinDegree..MaxDegree) => err = "none"

\* C7: with degree 0 the solver runs: the regression raises nothing.
C7_DegreeZeroRuns ==
    (Live /\ obj.degree = 0) => err # "ValueError"

\* the value the Picard update of the spread solvers is said to give path m at
\* column j - 1: the minimum is taken per path, against 0
PerPathUpdate(m, j) ==
    LET E == Fit(obj, Col(S, obj.M, j), Col(Y, obj.M, j))
        least == QMin(QSub(Y[m][j], QDiv(Z[m][j], obj.sigma)), Zero)
        gen == QAdd(E[m],
                    QMul(QSub(QAdd(QMul(QNeg(obj.r), Y[m][j]), QMul(obj.lamb, Z[m][j])),
                              QMul(QSub(obj.R, obj.r), least)),
                         obj.dt))
    IN  IF obj.variant = "AmericanSpread"
        THEN QMax(PayoffFunc(obj, S[m][j]), gen) ELSE gen

\* C8: in both spread solvers Y[m, i-1] = E[m] + (-r*Y[m, i] + lamb*Z[m, i]
\* - (R - r)*min(Y[m, i] - Z[m, i]/sigma, 0))*dt, path by path.
C8_PerPathGenerator ==
    (InSweep /\ IsSpread(obj)) =>
        \A j \in (i + 1)..obj.N : \A m \in Paths : Y[m][j - 1] = PerPathUpdate(m, j)

RECURSIVE Descending(_, _)
\* <<hi, hi - 1, ..., lo + 1>>
Descending(hi, lo) == IF hi <= lo THEN <<>> ELSE <<hi>> \o Descending(hi - 1, lo)

\* Y with every column but column j overwritten
Scrambled(y, j) ==
    [m \in DOMAIN y |-> [c \in DOMAIN y[m] |-> IF c = j THEN y[m][c] ELSE QInt(7)]]

\* a step of the backward loop
C9_StepOk ==
    (pc = "sweep" /\ pc' = "sweep") =>
        /\ i' = i - 1
        /\ visited' = Descending(obj.N, i')
        /\ \A m \in Paths : \A c \in 0..obj.N : c # i - 1 => Y'[m][c] = Y[m][c]
        /\ \A m \in Paths :
              Y'[m][i - 1] = StepY(obj, S, dW, Scrambled(Y, i), Z, i)[m][i - 1]

\* the end of a sweep
C9_EndOk ==
    (pc = "sweep" /\ pc' = "batch") =>
        /\ i = 0
        /\ visited = Descending(obj.N, 0)
        /\ {c - 1 : c \in {visited[n] : n \in 1..Len(visited)}} = 0..(obj.N - 1)
        /\ Y0_samples'[k + 1] = Mean(Col(Y, obj.M, 0), obj.M)

\* C9: the sweep visits i = N, ..., 1 once each in decreasing order; the step
\* at i writes only column i-1 of Y and its result depends on no Y column but
\* column i; at the end columns 0..N-1 are written and the batch estimate is
\* the mean of column 0.
C9_BackwardSweepOrder == [][C9_StepOk /\ C9_EndOk]_vars

\* C9 witness: an American spread sweep of two steps has ended.
C9_Witness ==
    /\ SweepDone /\ obj.variant = "AmericanSpread"
    /\ obj.N = 2 /\ visited = <<2, 1>>
    /\ \E m \in Paths : Y[m][0] # Zero

\* C10: every field of the object keeps the value the constructor gave it.
C10_ConfigurationImmutable ==
    Live => obj = Construct(given)

====
